---------------------------- MODULE Spec2Model ----------------------------
(***************************************************************************)
(* Scoring and recommendation engine of the process-metrics scripts:       *)
(*   scripts/calculate-process-maturity.py    (score_dimension,            *)
(*       calculate_maturity, get_maturity_level)                           *)
(*   scripts/analyze-command-usage.py         (update_command_usage,       *)
(*       analyze_command_usage and its helpers)                            *)
(*   scripts/analyze-subagent-effectiveness.py (generate_recommendations)  *)
(*                                                                         *)
(* Numbers.  Ratios, rates and thresholds are kept as integers in          *)
(* hundredths (0.82 is 82), weights in hundredths (0.25 is 25), weighted   *)
(* scores in hundredths of a point and the overall score in tenths.        *)
(* Python's round() is applied to binary floating point values: away from  *)
(* a tie it returns the nearest value, and on an exact decimal tie the     *)
(* representation error of the float decides the direction, so a tie is    *)
(* modelled as a choice between the two neighbours (RoundChoices).         *)
(***************************************************************************)
EXTENDS Integers, Sequences, FiniteSets, TLC

VARIABLES
    \* score_dimension(value, thresholds): one call and its outcome
    value, thresholds, score, sd_pc,
    \* get_maturity_level(score): one call and its outcome
    overall, level, lv_pc,
    \* calculate_maturity(): its loop position, locals and returned report
    cm_pc, results, total_score, report,
    \* the overall score of the report an earlier run returned, if one is kept
    previous_score,
    \* command-usage.json as load_command_data() reads it
    data,
    \* history of the update_command_usage calls: per command, how many were
    \* made and how many reported success; the commands of the initial file
    calls, successes, seeded,
    \* the processes running update_command_usage or analyze_command_usage
    \* step by step: position, loaded data and arguments of each; whether the
    \* caller runs them one at a time
    running, serialized,
    \* analyze_effectiveness(): the per-model counts aggregated from the task
    \* log, subagent-effectiveness.json, and the position of the run
    model_stats, subagent_data, ae_pc,
    \* the task log as parse_task_log() reads it
    task_log

scoreVars == <<value, thresholds, score, sd_pc>>
levelVars == <<overall, level, lv_pc>>
maturityVars == <<cm_pc, results, total_score, report, previous_score>>
usageVars == <<data, calls, successes, seeded, running, serialized>>
modelVars == <<model_stats, subagent_data, ae_pc, task_log>>
vars == <<scoreVars, levelVars, maturityVars, usageVars, modelVars>>

---------------------------------------------------------------------------
(* Bounds of the model *)

\* largest upper bound of a generated threshold table
MaxBound == 2
\* longest task log
MaxLogLen == 2
\* longest generated threshold table
MaxTableLen == 3
\* overall scores above 10.0 (in tenths) handed to get_maturity_level
ScoreMargin == 5
\* update_command_usage calls in one behaviour
MaxCalls == 7
\* log entries of one model for its main task type
MaxAttempted == 6

---------------------------------------------------------------------------
(* Python helpers *)

Abs(x) == IF x < 0 THEN 0 - x ELSE x

\* floor of num/den for den > 0, num any integer
FloorDiv(num, den) == IF num >= 0 THEN num \div den ELSE 0 - ((0 - num + den - 1) \div den)

\* round(num/den): the nearest integer; on an exact tie either neighbour
RoundChoices(num, den) ==
    LET q == FloorDiv(num, den)
        r == num - q * den
    IN  IF 2 * r < den THEN {q}
        ELSE IF 2 * r > den THEN {q + 1}
        ELSE {q, q + 1}

\* round(num/den) of a quotient whose ties are exact floats: half to even
RoundHalfEven(num, den) ==
    LET q == FloorDiv(num, den)
        r == num - q * den
    IN  IF 2 * r < den THEN q
        ELSE IF 2 * r > den THEN q + 1
        ELSE IF q % 2 = 0 THEN q ELSE q + 1

---------------------------------------------------------------------------
(* calculate-process-maturity.py: score_dimension *)

RECURSIVE scan_thresholds(_, _, _)
scan_thresholds(v, table, i) ==
    IF i > Len(table) THEN table[Len(table)][2]
    ELSE IF v <= table[i][1] THEN table[i][2]
    ELSE scan_thresholds(v, table, i + 1)

\* the variant that compares strictly (value < threshold)
score_dimension_strict(v, table) ==
    LET hits == {i \in 1..Len(table) : v < table[i][1]}
    IN  IF hits = {} THEN table[Len(table)][2]
        ELSE table[CHOOSE i \in hits : \A j \in hits : i <= j][2]

\* the variant that gives a value of 0.0 or less the score 0
score_dimension_zero_floor(v, table) ==
    IF v <= 0 THEN 0 ELSE scan_thresholds(v, table, 1)

\* the variant that falls back to the first entry (thresholds[0][1])
score_dimension_clamp_first(v, table) ==
    LET hits == {i \in 1..Len(table) : v <= table[i][1]}
    IN  IF hits = {} THEN table[1][2]
        ELSE table[CHOOSE i \in hits : \A j \in hits : i <= j][2]

\* the variant that scans the table in ascending order of bound, as if it
\* had sorted the table first
score_dimension_sorting(v, table) ==
    LET hits == {i \in 1..Len(table) : v <= table[i][1]}
        least == {i \in hits : \A j \in hits : table[i][1] <= table[j][1]}
        top == {i \in 1..Len(table) : \A j \in 1..Len(table) : table[j][1] <= table[i][1]}
    IN  IF hits = {} THEN table[CHOOSE i \in top : \A j \in top : j <= i][2]
        ELSE table[CHOOSE i \in least : \A j \in least : i <= j][2]

\* for threshold, score in thresholds: if value <= threshold: return score
\* return thresholds[-1][1]
score_dimension(v, table) == scan_thresholds(v, table, 1)

\* the threshold tables configured in calculate_maturity (hundredths)
DelegationThresholds == <<<<20, 2>>, <<40, 4>>, <<60, 6>>, <<80, 8>>, <<100, 10>>>>
DocumentationThresholds == <<<<40, 2>>, <<60, 4>>, <<75, 6>>, <<90, 8>>, <<100, 10>>>>
TestCoverageThresholds == <<<<60, 2>>, <<70, 4>>, <<80, 6>>, <<90, 8>>, <<100, 10>>>>

ConfiguredTables == {DelegationThresholds, DocumentationThresholds, TestCoverageThresholds}

\* raw ratios (hundredths) tried against the configured tables: below zero,
\* on and between the bounds, above 1.0
RatioValues == {0 - 5, 0, 20, 21, 40, 60, 65, 70, 75, 82, 90, 100, 105}

\* generated tables: any order of bounds, any scores, the empty table too
TableEntries == (0..MaxBound) \X {0, 5, 10}
TablesOfLen(n) == [1..n -> TableEntries]
GeneratedTables == UNION {TablesOfLen(n) : n \in 0..MaxTableLen}
GeneratedValues == (0 - 1)..(MaxBound + 1)

ScoreInit ==
    /\ \/ thresholds \in ConfiguredTables /\ value \in RatioValues
       \/ thresholds \in GeneratedTables /\ value \in GeneratedValues
    /\ score = 0
    /\ sd_pc = "call"

ScoreIdle == value = 0 /\ thresholds = <<>> /\ score = 0 /\ sd_pc = "idle"

\* the call returns a score
ScoreDimension ==
    /\ sd_pc = "call"
    /\ Len(thresholds) > 0
    /\ score' = score_dimension(value, thresholds)
    /\ sd_pc' = "returned"
    /\ UNCHANGED <<value, thresholds, levelVars, maturityVars, usageVars, modelVars>>

\* thresholds[-1] on an empty list raises IndexError
ScoreDimensionRaises ==
    /\ sd_pc = "call"
    /\ Len(thresholds) = 0
    /\ sd_pc' = "IndexError"
    /\ UNCHANGED <<value, thresholds, score, levelVars, maturityVars, usageVars, modelVars>>

---------------------------------------------------------------------------
(* calculate-process-maturity.py: get_maturity_level (score in tenths) *)

\* the variant with inclusive comparisons (score <= 2.0 ...)
get_maturity_level_inclusive(s) ==
    IF s <= 20 THEN "Critical"
    ELSE IF s <= 40 THEN "Poor"
    ELSE IF s <= 60 THEN "Fair"
    ELSE IF s <= 80 THEN "Good"
    ELSE "Excellent"

get_maturity_level(s) ==
    IF s < 20 THEN "Critical"
    ELSE IF s < 40 THEN "Poor"
    ELSE IF s < 60 THEN "Fair"
    ELSE IF s < 80 THEN "Good"
    ELSE "Excellent"

LevelInit ==
    /\ overall \in 0..(100 + ScoreMargin)
    /\ level = "none"
    /\ lv_pc = "call"

LevelIdle == overall = 0 /\ level = "none" /\ lv_pc = "idle"

GetMaturityLevel ==
    /\ lv_pc = "call"
    /\ level' = get_maturity_level(overall)
    /\ lv_pc' = "returned"
    /\ UNCHANGED <<overall, scoreVars, maturityVars, usageVars, modelVars>>

---------------------------------------------------------------------------
(* calculate-process-maturity.py: calculate_maturity *)

\* the dimensions list; "guarded" tells whether the dimension's getValue
\* wraps its work in try/except (get_delegation_compliance and
\* get_hook_adoption_rate do not: a malformed metrics file raises)
dimensions == <<
    [name |-> "Delegation Compliance", weight |-> 25, guarded |-> FALSE,
     thresholds |-> DelegationThresholds],
    [name |-> "Error Recurrence", weight |-> 20, guarded |-> TRUE,
     thresholds |-> DelegationThresholds],
    [name |-> "Documentation Coverage", weight |-> 15, guarded |-> TRUE,
     thresholds |-> DocumentationThresholds],
    [name |-> "Test Coverage", weight |-> 15, guarded |-> TRUE,
     thresholds |-> TestCoverageThresholds],
    [name |-> "Context Freshness", weight |-> 15, guarded |-> TRUE,
     thresholds |-> DelegationThresholds],
    [name |-> "Hook Adoption", weight |-> 10, guarded |-> FALSE,
     thresholds |-> DelegationThresholds] >>

\* what dim["getValue"]() can return: (value, detail).  The detail text is
\* kept as its kind: a measurement, the "no data" default, a caught error.
\* Measured ratios are taken on the bounds of the dimension's own table, so
\* that every band of every table is produced.
getValue(dim) ==
    {[value |-> dim.thresholds[k][1], detail |-> "measured"] :
        k \in 1..Len(dim.thresholds)}
    \cup {[value |-> 0, detail |-> "no data"]}
    \cup (IF dim.guarded THEN {[value |-> 0, detail |-> "error"]} ELSE {})

\* the variant that forgets the weight
weighted_score_unweighted(s, weight) == s

\* weighted_score = score * dim["weight"]   (hundredths of a point)
weighted_score(s, weight) == s * weight

NoReport == [overallScore |-> 0, trend |-> "none", dimensions |-> <<>>,
             calculatedAt |-> "none"]

\* no earlier report is kept
NoPrevious == 0 - 1

\* the overall scores (tenths) of the earlier reports tried: "historical data"
PreviousScores == {60}

\* a run starts; the caller may hold the report of an earlier run
MaturityInit ==
    /\ cm_pc = "loop"
    /\ results = <<>>
    /\ total_score = 0
    /\ report = NoReport
    /\ previous_score \in {NoPrevious} \cup PreviousScores

MaturityIdle ==
    /\ cm_pc = "idle"
    /\ results = <<>>
    /\ total_score = 0
    /\ report = NoReport
    /\ previous_score = NoPrevious

\* the variant that leaves a dimension without data out of the total
ScoreNextDimension_skips_missing ==
    /\ cm_pc = "loop"
    /\ Len(results) < Len(dimensions)
    /\ LET dim == dimensions[Len(results) + 1]
       IN  \E got \in getValue(dim) :
             LET s == score_dimension(got.value, dim.thresholds)
             IN  /\ total_score' = IF got.detail = "no data" THEN total_score
                                   ELSE total_score + weighted_score(s, dim.weight)
                 /\ results' = Append(results,
                        [dimension |-> dim.name, value |-> got.value,
                         score |-> s, weight |-> dim.weight,
                         detail |-> got.detail])
    /\ UNCHANGED <<cm_pc, report, previous_score, scoreVars, levelVars, usageVars, modelVars>>

\* one iteration of "for dim in dimensions"
ScoreNextDimension ==
    /\ cm_pc = "loop"
    /\ Len(results) < Len(dimensions)
    /\ LET dim == dimensions[Len(results) + 1]
       IN  \E got \in getValue(dim) :
             LET s == score_dimension(got.value, dim.thresholds)
             IN  /\ total_score' = total_score + weighted_score(s, dim.weight)
                 /\ results' = Append(results,
                        [dimension |-> dim.name, value |-> got.value,
                         score |-> s, weight |-> dim.weight,
                         detail |-> got.detail])
    /\ UNCHANGED <<cm_pc, report, previous_score, scoreVars, levelVars, usageVars, modelVars>>

\* an unguarded getValue raises (json.load on a malformed metrics file):
\* the exception leaves calculate_maturity, no report is returned
GetValueRaises ==
    /\ cm_pc = "loop"
    /\ Len(results) < Len(dimensions)
    /\ ~dimensions[Len(results) + 1].guarded
    /\ cm_pc' = "raised"
    /\ UNCHANGED <<results, total_score, report, previous_score, scoreVars, levelVars, usageVars, modelVars>>

\* return {"overallScore": round(total_score, 1), "trend": "stable", ...}
ReturnReport ==
    /\ cm_pc = "loop"
    /\ Len(results) = Len(dimensions)
    /\ \E rounded \in RoundChoices(total_score, 10) :
         report' = [overallScore |-> rounded, trend |-> "stable",
                    dimensions |-> results, calculatedAt |-> "now"]
    /\ cm_pc' = "returned"
    /\ UNCHANGED <<results, total_score, previous_score, scoreVars, levelVars, usageVars, modelVars>>

\* print_report(result): level, description = get_maturity_level(score)
PrintReport ==
    /\ cm_pc = "returned"
    /\ lv_pc = "idle"
    /\ overall' = report.overallScore
    /\ level' = get_maturity_level(report.overallScore)
    /\ lv_pc' = "returned"
    /\ UNCHANGED <<scoreVars, maturityVars, usageVars, modelVars>>

---------------------------------------------------------------------------
(* analyze-command-usage.py *)

\* the commands recorded in this model, and the ids the analysis knows
Commands == {"/local-x", "/local-y"}

\* cmd.startswith(prefix), for the ids above
startswith(cmd, prefix) ==
    \/ prefix = "/local-" /\ cmd \in {"/local-x", "/local-y", "/local-code"}
    \/ prefix = "/process-" /\ cmd \in {"/process-a", "/process-b", "/process-c"}

\* a key that the JSON object does not hold
NoKey == 0 - 1

\* an insertion-ordered dict is a sequence of entries, each with its key "cmd"
Keys(commands) == {commands[i].cmd : i \in 1..Len(commands)}
IndexOf(commands, c) == CHOOSE i \in 1..Len(commands) : commands[i].cmd = c

\* insights {} and its .get defaults
NoInsights == [mostUsedCommands |-> <<>>, leastUsedCommands |-> <<>>,
               redundantCommands |-> <<>>, chainingOpportunities |-> <<>>,
               confusionPatterns |-> <<>>]

\* load_command_data() when the file does not exist
DefaultData == [exists |-> FALSE, commands |-> <<>>, insights |-> NoInsights,
                recommendations |-> <<>>, trackingPeriod |-> "absent",
                lastUpdated |-> "absent"]

\* the variant that counts the creating call in the new entry
NewEntry_counted(c) == [cmd |-> c, invocations |-> 1, lastUsed |-> "None",
                        avgSuccessRate |-> 0, recommendationsMade |-> 0,
                        adoptionRate |-> 0]

\* data["commands"][command] = {"invocations": 0, "lastUsed": None,
\*                              "avgSuccessRate": 0.0}
NewEntry(c) == [cmd |-> c, invocations |-> 0, lastUsed |-> "None",
                avgSuccessRate |-> 0, recommendationsMade |-> 0,
                adoptionRate |-> 0]

\* an entry of a hand-seeded file: no use yet, no avgSuccessRate key
SeededEntry(c) == [cmd |-> c, invocations |-> 0, lastUsed |-> "None",
                   avgSuccessRate |-> NoKey, recommendationsMade |-> 0,
                   adoptionRate |-> 0]

\* the variant that weights the old rate by the new count
new_rate_overweighted(current_rate, invocations, success) ==
    RoundChoices(current_rate * invocations + (IF success THEN 100 ELSE 0),
                 invocations)

\* round(((current_rate * (invocations - 1)) + (1.0 if success else 0.0))
\*       / invocations, 2), in hundredths
new_rate(current_rate, invocations, success) ==
    RoundChoices(current_rate * (invocations - 1) + (IF success THEN 100 ELSE 0),
                 invocations)

\* what update_command_usage saves when load_command_data() returned d
updated_data(d, command, success) ==
    LET commands1 == IF command \notin Keys(d.commands)
                     THEN Append(d.commands, NewEntry(command))
                     ELSE d.commands
        i == IndexOf(commands1, command)
        cmd_data == commands1[i]
        invocations == cmd_data.invocations + 1
        current_rate == IF cmd_data.avgSuccessRate = NoKey THEN 50
                        ELSE cmd_data.avgSuccessRate
    IN  {[d EXCEPT
            !.exists = TRUE,
            !.commands = [commands1 EXCEPT ![i] =
                [cmd_data EXCEPT !.invocations = invocations,
                                 !.lastUsed = "now",
                                 !.avgSuccessRate = rounded]],
            !.trackingPeriod = "set"] :
         rounded \in new_rate(current_rate, invocations, success)}

\* update_command_usage(command, success): load, update the entry, save
update_command_usage(command, success) ==
    data' \in updated_data(data, command, success)

\* usage_counts.sort(key=lambda x: x[1], reverse=True): stable, descending
RECURSIVE SortByCountDesc(_)
SortByCountDesc(pairs) ==
    IF pairs = <<>> THEN <<>>
    ELSE LET n == Len(pairs)
             rest == SortByCountDesc(SubSeq(pairs, 1, n - 1))
             x == pairs[n]
             k == Cardinality({j \in 1..Len(rest) : rest[j][2] >= x[2]})
         IN  SubSeq(rest, 1, k) \o <<x>> \o SubSeq(rest, k + 1, Len(rest))

CmdsOf(pairs) == [j \in 1..Len(pairs) |-> pairs[j][1]]
EntryCmds(entries) == [j \in 1..Len(entries) |-> entries[j].cmd]

\* the variant that reports a /process-* cluster from two members on
find_redundant_commands_process_pairs(commands) ==
    LET local_commands ==
            SelectSeq(commands, LAMBDA e :
                startswith(e.cmd, "/local-") /\ e.invocations < 5)
        process_commands ==
            SelectSeq(commands, LAMBDA e :
                startswith(e.cmd, "/process-") /\ e.invocations < 3)
    IN  (IF Len(local_commands) >= 2
         THEN <<[commands |-> EntryCmds(local_commands),
                 reason |-> "Multiple /local-* commands with low usage, consider consolidation",
                 suggestion |-> "Merge into /delegate-auto with auto-routing"]>>
         ELSE <<>>)
        \o
        (IF Len(process_commands) >= 2
         THEN <<[commands |-> EntryCmds(process_commands),
                 reason |-> "Multiple specialized process commands rarely used",
                 suggestion |-> "Consider consolidating related functions"]>>
         ELSE <<>>)

\* find_redundant_commands(commands)
find_redundant_commands(commands) ==
    LET local_commands ==
            SelectSeq(commands, LAMBDA e :
                startswith(e.cmd, "/local-") /\ e.invocations < 5)
        process_commands ==
            SelectSeq(commands, LAMBDA e :
                startswith(e.cmd, "/process-") /\ e.invocations < 3)
    IN  (IF Len(local_commands) >= 2
         THEN <<[commands |-> EntryCmds(local_commands),
                 reason |-> "Multiple /local-* commands with low usage, consider consolidation",
                 suggestion |-> "Merge into /delegate-auto with auto-routing"]>>
         ELSE <<>>)
        \o
        (IF Len(process_commands) >= 3
         THEN <<[commands |-> EntryCmds(process_commands),
                 reason |-> "Multiple specialized process commands rarely used",
                 suggestion |-> "Consider consolidating related functions"]>>
         ELSE <<>>)

\* find_chaining_opportunities(commands): the two fixed known patterns
find_chaining_opportunities(commands) ==
    <<[sequence |-> <<"/project start", "/gen-tests", "/review">>,
       frequency |-> "unknown",
       suggestion |-> "Consider /project-init-with-tests macro"],
      [sequence |-> <<"/local-code", "npm test", "/review">>,
       frequency |-> "unknown",
       suggestion |-> "Already automated via execute-local-task.sh"]>>

\* the variant that takes the first five commands before sorting them
analyze_usage_patterns_slice_first(d) ==
    LET commands == d.commands
        pairs == [j \in 1..Len(commands) |-> <<commands[j].cmd, commands[j].invocations>>]
        usage_counts == SortByCountDesc(pairs)
        top == SortByCountDesc(SubSeq(pairs, 1, IF Len(pairs) < 5 THEN Len(pairs) ELSE 5))
    IN  [d EXCEPT !.insights =
           [mostUsedCommands |-> CmdsOf(SelectSeq(top, LAMBDA p : p[2] > 0)),
            leastUsedCommands |-> CmdsOf(SelectSeq(usage_counts, LAMBDA p : p[2] = 0)),
            redundantCommands |-> find_redundant_commands(commands),
            chainingOpportunities |-> find_chaining_opportunities(commands),
            confusionPatterns |-> <<>>]]

\* analyze_usage_patterns(data): the insights it stores
analyze_usage_patterns(d) ==
    LET commands == d.commands
        usage_counts == SortByCountDesc(
            [j \in 1..Len(commands) |-> <<commands[j].cmd, commands[j].invocations>>])
        top == SubSeq(usage_counts, 1, IF Len(usage_counts) < 5
                                       THEN Len(usage_counts) ELSE 5)
    IN  [d EXCEPT !.insights =
           [mostUsedCommands |-> CmdsOf(SelectSeq(top, LAMBDA p : p[2] > 0)),
            leastUsedCommands |-> CmdsOf(SelectSeq(usage_counts, LAMBDA p : p[2] = 0)),
            redundantCommands |-> find_redundant_commands(commands),
            chainingOpportunities |-> find_chaining_opportunities(commands),
            confusionPatterns |-> <<>>]]

\* one recommendation; "issue" keeps the text's kind and its parameter
Recommendation(priority, category, issue, cmds, suggestion) ==
    [priority |-> priority, category |-> category, issue |-> issue,
     commands |-> cmds, suggestion |-> suggestion]

\* "Deprecate unused commands": if least_used, one low/cleanup recommendation
cleanup_recommendations(d) ==
    LET least_used == d.insights.leastUsedCommands
    IN  IF least_used # <<>>
        THEN <<Recommendation("low", "cleanup",
                   <<"never used", Len(least_used)>>, least_used,
                   "Review for deprecation or better promotion")>>
        ELSE <<>>

\* "Consolidate redundant commands": one medium/consolidation per redundancy
consolidation_recommendations(d) ==
    LET redundant == d.insights.redundantCommands
    IN  [j \in 1..Len(redundant) |->
            Recommendation("medium", "consolidation",
                <<redundant[j].reason, 0>>, redundant[j].commands,
                redundant[j].suggestion)]

\* "Improve /route adoption": commands.get("/route", {}) with its .get defaults
adoption_recommendations(d) ==
    LET commands == d.commands
        route == IF "/route" \in Keys(commands)
                 THEN commands[IndexOf(commands, "/route")]
                 ELSE NewEntry("/route")
    IN  IF route.recommendationsMade > 0 /\ route.adoptionRate < 30
        THEN <<Recommendation("high", "adoption",
                   <<"/route followed", route.adoptionRate>>, <<>>,
                   "Improve specificity of routing advice or reduce noise")>>
        ELSE <<>>

\* the variant that also promotes a command with exactly 5 invocations
promotion_recommendations_inclusive(d) ==
    LET promoted ==
            SelectSeq(d.commands, LAMBDA e :
                e.invocations <= 5
                /\ (IF e.avgSuccessRate = NoKey THEN 0 ELSE e.avgSuccessRate) > 80)
    IN  [j \in 1..Len(promoted) |->
            Recommendation("medium", "promotion",
                <<"highly successful but rarely used", 0>>,
                <<promoted[j].cmd>>,
                "Better documentation or automatic suggestions")]

\* "Promote high-value underutilized commands": invocations < 5 and
\* success_rate > 0.8, one medium/promotion per command, in dict order
promotion_recommendations(d) ==
    LET promoted ==
            SelectSeq(d.commands, LAMBDA e :
                e.invocations < 5
                /\ (IF e.avgSuccessRate = NoKey THEN 0 ELSE e.avgSuccessRate) > 80)
    IN  [j \in 1..Len(promoted) |->
            Recommendation("medium", "promotion",
                <<"highly successful but rarely used", 0>>,
                <<promoted[j].cmd>>,
                "Better documentation or automatic suggestions")]

\* the variant that lists the recommendations by priority: high, medium, low
generate_usage_recommendations_by_priority(d) ==
    [d EXCEPT !.recommendations =
        adoption_recommendations(d) \o consolidation_recommendations(d)
        \o promotion_recommendations(d) \o cleanup_recommendations(d)]

\* the variant that appends to the recommendations already stored
generate_usage_recommendations_appending(d) ==
    [d EXCEPT !.recommendations =
        d.recommendations
        \o cleanup_recommendations(d) \o consolidation_recommendations(d)
        \o adoption_recommendations(d) \o promotion_recommendations(d)]

\* generate_recommendations(data) of analyze-command-usage.py:
\* recommendations = [] ... data["recommendations"] = recommendations
generate_usage_recommendations(d) ==
    [d EXCEPT !.recommendations =
        cleanup_recommendations(d) \o consolidation_recommendations(d)
        \o adoption_recommendations(d) \o promotion_recommendations(d)]

\* the variant that saves the insights and recommendations without the
\* command counters
analyzed_data_without_commands(d) ==
    [generate_usage_recommendations(analyze_usage_patterns(d))
        EXCEPT !.exists = TRUE, !.lastUpdated = "now", !.commands = <<>>]

\* what analyze_command_usage saves when load_command_data() returned d
analyzed_data(d) ==
    [generate_usage_recommendations(analyze_usage_patterns(d))
        EXCEPT !.exists = TRUE, !.lastUpdated = "now"]

\* analyze_command_usage(): load, analyze, recommend, stamp, save
analyze_command_usage ==
    data' = analyzed_data(data)

\* the processes that may run: two hooks recording outcomes, one analysis
Hooks == {"hook1", "hook2"}
Procs == Hooks \cup {"analysis"}

\* a process that has not started
NotStarted == [pc |-> "start", loaded |-> DefaultData, command |-> "none",
               success |-> FALSE]
NoneRunning == [p \in Procs |-> NotStarted]

\* the file is missing, or was seeded with commands nobody has used yet
UsageInit ==
    /\ \/ data = DefaultData /\ seeded = {}
       \/ \E first \in Commands :
            /\ data = [DefaultData EXCEPT !.exists = TRUE,
                                          !.commands = <<SeededEntry(first)>>]
            /\ seeded = {first}
    /\ calls = [c \in Commands |-> 0]
    /\ successes = [c \in Commands |-> 0]
    /\ running = NoneRunning
    /\ serialized = TRUE

UsageIdle ==
    /\ data = DefaultData
    /\ seeded = {}
    /\ calls = [c \in Commands |-> 0]
    /\ successes = [c \in Commands |-> 0]
    /\ running = NoneRunning
    /\ serialized = TRUE

RECURSIVE SumOver(_, _)
SumOver(f, S) ==
    IF S = {} THEN 0
    ELSE LET c == CHOOSE x \in S : TRUE IN f[c] + SumOver(f, S \ {c})

\* a hook records one outcome of a command
RecordOutcome(command, success) ==
    /\ SumOver(calls, Commands) < MaxCalls
    /\ update_command_usage(command, success)
    /\ calls' = [calls EXCEPT ![command] = @ + 1]
    /\ successes' = [successes EXCEPT ![command] = @ + (IF success THEN 1 ELSE 0)]
    /\ UNCHANGED <<seeded, running, serialized, scoreVars, levelVars, maturityVars, modelVars>>

\* one run of the analysis script
AnalyzeCommandUsage ==
    /\ analyze_command_usage
    /\ UNCHANGED <<calls, successes, seeded, running, serialized, scoreVars, levelVars, maturityVars, modelVars>>

---------------------------------------------------------------------------
(* analyze-command-usage.py: the analysis of an existing usage file *)

\* the command ids of the stored file, in the order the file holds them
StoredOrder == <<"/a", "/b", "/route", "/local-x", "/local-y",
                 "/process-a", "/process-b", "/process-c">>

\* an entry as update_command_usage left it after n calls
UsedEntry(c, n, rate) ==
    [NewEntry(c) EXCEPT !.invocations = n, !.lastUsed = "now", !.avgSuccessRate = rate]

\* the /route entry, with the counters generate_recommendations reads from it
RouteEntry(n, rate, made, adoption) ==
    [UsedEntry("/route", n, rate) EXCEPT !.recommendationsMade = made,
                                         !.adoptionRate = adoption]

\* the file holds no entry for c
AbsentEntry(c) == [NewEntry(c) EXCEPT !.lastUsed = "absent"]

\* what the file may hold for a command: nothing, a seeded entry nobody
\* used, or an entry with the count and rate its recorded outcomes gave it
StoredChoices(c) ==
    {AbsentEntry(c)} \cup
    (IF c \in {"/a", "/b"}
     THEN {SeededEntry(c), UsedEntry(c, 6, 50)}
     ELSE IF c = "/route"
     THEN {RouteEntry(1, 100, 0, 0), RouteEntry(9, 89, 10, 29),
           RouteEntry(9, 89, 10, 30)}
     ELSE IF startswith(c, "/local-")
     THEN {UsedEntry(c, 2, 50), UsedEntry(c, 3, 100), UsedEntry(c, 4, 75),
           UsedEntry(c, 5, 100)}
     ELSE {SeededEntry(c), UsedEntry(c, 2, 100), UsedEntry(c, 3, 67)})

Reverse(seq) == [j \in 1..Len(seq) |-> seq[Len(seq) + 1 - j]]

\* load_command_data() on an existing file that was never analysed
AnalysisInit ==
    /\ \E e1 \in StoredChoices(StoredOrder[1]), e2 \in StoredChoices(StoredOrder[2]),
          e3 \in StoredChoices(StoredOrder[3]), e4 \in StoredChoices(StoredOrder[4]),
          e5 \in StoredChoices(StoredOrder[5]), e6 \in StoredChoices(StoredOrder[6]),
          e7 \in StoredChoices(StoredOrder[7]), e8 \in StoredChoices(StoredOrder[8]),
          reversed \in BOOLEAN :
            LET held == SelectSeq(<<e1, e2, e3, e4, e5, e6, e7, e8>>,
                                  LAMBDA e : e.lastUsed # "absent")
            IN  data = [DefaultData EXCEPT
                          !.exists = TRUE,
                          !.commands = IF reversed THEN Reverse(held) ELSE held,
                          !.trackingPeriod = "set"]
    /\ seeded = {}
    /\ calls = [c \in Commands |-> 0]
    /\ successes = [c \in Commands |-> 0]
    /\ running = NoneRunning
    /\ serialized = TRUE

---------------------------------------------------------------------------
(* analyze-command-usage.py: the load and the save of a call as two steps *)

\* no file yet, no call started; the caller serializes the calls or not
RaceInit ==
    /\ data = DefaultData
    /\ seeded = {}
    /\ calls = [c \in Commands |-> 0]
    /\ successes = [c \in Commands |-> 0]
    /\ running = NoneRunning
    /\ serialized \in BOOLEAN

\* a serializing caller starts a call only when no other is between its
\* load and its save
MayStart(p) ==
    /\ running[p].pc = "start"
    /\ serialized => \A q \in Procs : running[q].pc # "loaded"

\* update_command_usage: data = load_command_data()
LoadForUpdate(p, command, success) ==
    /\ p \in Hooks
    /\ MayStart(p)
    /\ running' = [running EXCEPT ![p] =
                      [pc |-> "loaded", loaded |-> data, command |-> command,
                       success |-> success]]
    /\ UNCHANGED <<data, calls, successes, seeded, serialized,
                   scoreVars, levelVars, maturityVars, modelVars>>

\* update_command_usage: the entry is updated in the loaded data, json.dump
SaveUpdate(p) ==
    /\ p \in Hooks
    /\ running[p].pc = "loaded"
    /\ data' \in updated_data(running[p].loaded, running[p].command, running[p].success)
    /\ calls' = [calls EXCEPT ![running[p].command] = @ + 1]
    /\ successes' = [successes EXCEPT ![running[p].command] =
                        @ + (IF running[p].success THEN 1 ELSE 0)]
    /\ running' = [running EXCEPT ![p].pc = "done"]
    /\ UNCHANGED <<seeded, serialized, scoreVars, levelVars, maturityVars, modelVars>>

\* analyze_command_usage: data = load_command_data()
LoadForAnalysis ==
    /\ MayStart("analysis")
    /\ running' = [running EXCEPT !["analysis"] =
                      [NotStarted EXCEPT !.pc = "loaded", !.loaded = data]]
    /\ UNCHANGED <<data, calls, successes, seeded, serialized,
                   scoreVars, levelVars, maturityVars, modelVars>>

\* analyze_command_usage: insights, recommendations, timestamp, json.dump
SaveAnalysis ==
    /\ running["analysis"].pc = "loaded"
    /\ data' = analyzed_data(running["analysis"].loaded)
    /\ running' = [running EXCEPT !["analysis"].pc = "done"]
    /\ UNCHANGED <<calls, successes, seeded, serialized,
                   scoreVars, levelVars, maturityVars, modelVars>>

---------------------------------------------------------------------------
(* analyze-subagent-effectiveness.py *)

\* the models and task types that occur in the task log
LoggedModels == <<"deepseek", "qwen">>
TaskTypes == <<"refactor", "test">>

\* best_model = None, most_efficient = None, highest_quality = None
None == "None"
\* float("inf")
Infinity == 0 - 1
LessThan(a, b) == a # Infinity /\ (b = Infinity \/ a < b)

\* {"tasksAttempted": 0, "tasksSucceeded": 0, "taskTypes": {},
\*  "commonFailures": []}: no firstPassRate, avgTokensUsed, totalTokensUsed
DefaultModel(m) ==
    [model |-> m, tasksAttempted |-> 0, tasksSucceeded |-> 0,
     taskTypes |-> <<>>, commonFailures |-> <<>>,
     firstPassRate |-> NoKey, avgTokensUsed |-> NoKey,
     totalTokensUsed |-> NoKey]

\* load_subagent_data() when the file does not exist
DefaultSubagentData ==
    [models |-> <<DefaultModel("deepseek"), DefaultModel("qwen"),
                  DefaultModel("claude")>>,
     comparisonMetrics |-> [bestFor |-> <<>>, mostTokenEfficient |-> "absent",
                            highestQuality |-> "absent"],
     lastUpdated |-> "absent"]

ModelNames(models) == {models[j].model : j \in 1..Len(models)}
ModelIndex(models, m) == CHOOSE j \in 1..Len(models) : models[j].model = m
TypeNames(taskTypes) == {taskTypes[j].taskType : j \in 1..Len(taskTypes)}
TypeIndex(taskTypes, t) == CHOOSE j \in 1..Len(taskTypes) : taskTypes[j].taskType = t

\* round(succeeded / attempted, 2) if attempted > 0 else 0.0   (hundredths)
first_pass_rate(succeeded, attempted) ==
    IF attempted > 0 THEN RoundHalfEven(100 * succeeded, attempted) ELSE 0

\* round(stats["totalTokens"] / attempted) if attempted > 0 else 0
avg_tokens_used(totalTokens, attempted) ==
    IF attempted > 0 THEN RoundHalfEven(totalTokens, attempted) ELSE 0

\* taskTypes[task_type] = {...} for every task type of the model's stats
RECURSIVE put_task_types(_, _, _)
put_task_types(taskTypes, byTaskType, k) ==
    IF k > Len(byTaskType) THEN taskTypes
    ELSE LET ts == byTaskType[k]
             e == [taskType |-> ts.taskType, attempted |-> ts.attempted,
                   succeeded |-> ts.succeeded,
                   firstPassRate |-> first_pass_rate(ts.succeeded, ts.attempted)]
             next == IF ts.taskType \in TypeNames(taskTypes)
                     THEN [taskTypes EXCEPT ![TypeIndex(taskTypes, ts.taskType)] = e]
                     ELSE Append(taskTypes, e)
         IN  put_task_types(next, byTaskType, k + 1)

\* "for model, stats in model_stats.items()": rates and task type breakdown
RECURSIVE update_models(_, _, _)
update_models(models, stats, k) ==
    IF k > Len(stats) THEN models
    ELSE LET st == stats[k]
             models1 == IF st.model \notin ModelNames(models)
                        THEN Append(models, DefaultModel(st.model))
                        ELSE models
             j == ModelIndex(models1, st.model)
             old == models1[j]
             new == [old EXCEPT
                       !.tasksAttempted = st.attempted,
                       !.tasksSucceeded = st.succeeded,
                       !.firstPassRate = first_pass_rate(st.succeeded, st.attempted),
                       !.avgTokensUsed = avg_tokens_used(st.totalTokens, st.attempted),
                       !.totalTokensUsed = st.totalTokens,
                       !.taskTypes = put_task_types(old.taskTypes, st.byTaskType, 1)]
         IN  update_models([models1 EXCEPT ![j] = new], stats, k + 1)

\* the variant in which a later model with an equal rate replaces the best
RECURSIVE best_for_type_last_wins(_, _, _, _)
best_for_type_last_wins(models, task_type, k, best) ==
    IF k > Len(models) THEN best[1]
    ELSE LET md == models[k]
             rate == IF task_type \in TypeNames(md.taskTypes)
                     THEN md.taskTypes[TypeIndex(md.taskTypes, task_type)].firstPassRate
                     ELSE 0
         IN  IF task_type \in TypeNames(md.taskTypes) /\ rate >= best[2]
             THEN best_for_type_last_wins(models, task_type, k + 1, <<md.model, rate>>)
             ELSE best_for_type_last_wins(models, task_type, k + 1, best)

\* the inner loop of "Find best model for each task type"; state is
\* <<best_model, best_rate>>
RECURSIVE best_for_type(_, _, _, _)
best_for_type(models, task_type, k, best) ==
    IF k > Len(models) THEN best[1]
    ELSE LET md == models[k]
             rate == IF task_type \in TypeNames(md.taskTypes)
                     THEN md.taskTypes[TypeIndex(md.taskTypes, task_type)].firstPassRate
                     ELSE 0
         IN  IF task_type \in TypeNames(md.taskTypes) /\ rate > best[2]
             THEN best_for_type(models, task_type, k + 1, <<md.model, rate>>)
             ELSE best_for_type(models, task_type, k + 1, best)

\* the variant that accepts a zero average
RECURSIVE most_efficient_from_zero_ok(_, _, _)
most_efficient_from_zero_ok(models, k, best) ==
    IF k > Len(models) THEN best[1]
    ELSE LET md == models[k]
             avg_tokens == IF md.avgTokensUsed = NoKey THEN Infinity
                           ELSE md.avgTokensUsed
         IN  IF /\ avg_tokens # Infinity
                /\ LessThan(avg_tokens, best[2])
                /\ md.tasksAttempted > 0
             THEN most_efficient_from_zero_ok(models, k + 1, <<md.model, avg_tokens>>)
             ELSE most_efficient_from_zero_ok(models, k + 1, best)

\* "Find most token-efficient model"; state is <<most_efficient, min_tokens>>
RECURSIVE most_efficient_from(_, _, _)
most_efficient_from(models, k, best) ==
    IF k > Len(models) THEN best[1]
    ELSE LET md == models[k]
             avg_tokens == IF md.avgTokensUsed = NoKey THEN Infinity
                           ELSE md.avgTokensUsed
         IN  IF /\ avg_tokens # Infinity
                /\ 0 < avg_tokens
                /\ LessThan(avg_tokens, best[2])
                /\ md.tasksAttempted > 0
             THEN most_efficient_from(models, k + 1, <<md.model, avg_tokens>>)
             ELSE most_efficient_from(models, k + 1, best)

\* the variant whose gate is "at least 5 tasks"
RECURSIVE highest_quality_from_min5(_, _, _)
highest_quality_from_min5(models, k, best) ==
    IF k > Len(models) THEN best[1]
    ELSE LET md == models[k]
             rate == IF md.firstPassRate = NoKey THEN 0 ELSE md.firstPassRate
         IN  IF rate > best[2] /\ md.tasksAttempted >= 5
             THEN highest_quality_from_min5(models, k + 1, <<md.model, rate>>)
             ELSE highest_quality_from_min5(models, k + 1, best)

\* "Find highest overall quality"; state is <<highest_quality, best_quality>>
RECURSIVE highest_quality_from(_, _, _)
highest_quality_from(models, k, best) ==
    IF k > Len(models) THEN best[1]
    ELSE LET md == models[k]
             rate == IF md.firstPassRate = NoKey THEN 0 ELSE md.firstPassRate
         IN  IF rate > best[2] /\ md.tasksAttempted > 5
             THEN highest_quality_from(models, k + 1, <<md.model, rate>>)
             ELSE highest_quality_from(models, k + 1, best)

\* the variant whose best_rate starts below every rate
generate_recommendations_any_rate(models) ==
    LET task_types == UNION {TypeNames(models[j].taskTypes) : j \in 1..Len(models)}
        best_model(t) == best_for_type(models, t, 1, <<None, 0 - 1>>)
        most_efficient == most_efficient_from(models, 1, <<None, Infinity>>)
        highest_quality == highest_quality_from(models, 1, <<None, 0>>)
    IN  [bestFor |-> [t \in {u \in task_types : best_model(u) # None} |-> best_model(t)],
         mostTokenEfficient |-> IF most_efficient # None THEN most_efficient
                                ELSE "insufficient_data",
         highestQuality |-> IF highest_quality # None THEN highest_quality
                            ELSE "insufficient_data"]

\* generate_recommendations(models) of analyze-subagent-effectiveness.py
generate_recommendations(models) ==
    LET task_types == UNION {TypeNames(models[j].taskTypes) : j \in 1..Len(models)}
        best_model(t) == best_for_type(models, t, 1, <<None, 0>>)
        most_efficient == most_efficient_from(models, 1, <<None, Infinity>>)
        highest_quality == highest_quality_from(models, 1, <<None, 0>>)
    IN  [bestFor |-> [t \in {u \in task_types : best_model(u) # None} |-> best_model(t)],
         mostTokenEfficient |-> IF most_efficient # None THEN most_efficient
                                ELSE "insufficient_data",
         highestQuality |-> IF highest_quality # None THEN highest_quality
                            ELSE "insufficient_data"]

\* the counts of one model for one task type: <<attempted, succeeded>>
\* every count up to the bound, and the 8/10 and 6/10 of the documented example
MainTypeCounts == {<<a, k>> \in (0..MaxAttempted) \X (0..MaxAttempted) : k <= a}
                  \cup {<<10, 8>>, <<10, 6>>}
OtherTypeCounts == {<<0, 0>>, <<1, 0>>, <<1, 1>>}
TokenTotals == {0, 3, 40}

\* model_stats[model] after the log has been aggregated
StatsOf(m, main, other, tokens) ==
    [model |-> m,
     attempted |-> main[1] + other[1],
     succeeded |-> main[2] + other[2],
     totalTokens |-> tokens,
     byTaskType |->
        (IF main[1] > 0
         THEN <<[taskType |-> TaskTypes[1], attempted |-> main[1], succeeded |-> main[2]]>>
         ELSE <<>>)
        \o
        (IF other[1] > 0
         THEN <<[taskType |-> TaskTypes[2], attempted |-> other[1], succeeded |-> other[2]]>>
         ELSE <<>>)]

\* a model is in model_stats only when the log has an entry of it
ModelStatsChoices(m) ==
    {<<>>} \cup
    {<<StatsOf(m, main, other, tokens)>> :
        main \in MainTypeCounts, other \in OtherTypeCounts, tokens \in TokenTotals}

ModelsInit ==
    /\ \E first \in ModelStatsChoices(LoggedModels[1]),
          second \in ModelStatsChoices(LoggedModels[2]) :
            /\ \A st \in {first, second} : st # <<>> => st[1].attempted > 0
            /\ model_stats = first \o second
    /\ subagent_data = DefaultSubagentData
    /\ ae_pc = "start"
    /\ task_log = <<>>

ModelsIdle ==
    /\ model_stats = <<>>
    /\ subagent_data = DefaultSubagentData
    /\ ae_pc = "idle"
    /\ task_log = <<>>

\* analyze_effectiveness(): rates, comparison metrics, timestamp, save
AnalyzeEffectiveness ==
    /\ ae_pc = "start"
    /\ LET models == update_models(subagent_data.models, model_stats, 1)
       IN  subagent_data' = [models |-> models,
                             comparisonMetrics |-> generate_recommendations(models),
                             lastUpdated |-> "now"]
    /\ ae_pc' = "done"
    /\ UNCHANGED <<model_stats, task_log, scoreVars, levelVars, maturityVars, usageVars>>

---------------------------------------------------------------------------
(* analyze-subagent-effectiveness.py: runs over a task log that changes *)

\* the values of a log line's fields: timestamp|model|taskType|status|tokens
LogStatuses == {"success", "failure"}
LogTokens == {40}
LogEntries ==
    [model : {LoggedModels[j] : j \in 1..Len(LoggedModels)},
     taskType : {TaskTypes[j] : j \in 1..Len(TaskTypes)},
     status : LogStatuses,
     tokens : LogTokens]

StatModels(stats) == {stats[j].model : j \in 1..Len(stats)}
StatIndex(stats, m) == CHOOSE j \in 1..Len(stats) : stats[j].model = m

\* byTaskType[task_type]["attempted"] += 1, and ["succeeded"] += 1 on success
count_task(byTaskType, task) ==
    LET bt == IF task.taskType \in TypeNames(byTaskType) THEN byTaskType
              ELSE Append(byTaskType,
                       [taskType |-> task.taskType, attempted |-> 0, succeeded |-> 0])
        j == TypeIndex(bt, task.taskType)
    IN  [bt EXCEPT ![j].attempted = @ + 1,
                   ![j].succeeded = @ + (IF task.status = "success" THEN 1 ELSE 0)]

\* "for task in task_log": model_stats after the tasks from k on are counted
RECURSIVE aggregate(_, _, _)
aggregate(stats, log, k) ==
    IF k > Len(log) THEN stats
    ELSE LET task == log[k]
             st1 == IF task.model \in StatModels(stats) THEN stats
                    ELSE Append(stats,
                             [model |-> task.model, attempted |-> 0, succeeded |-> 0,
                              totalTokens |-> 0, byTaskType |-> <<>>])
             j == StatIndex(st1, task.model)
             old == st1[j]
             new == [old EXCEPT
                       !.attempted = @ + 1,
                       !.totalTokens = @ + task.tokens,
                       !.byTaskType = count_task(@, task),
                       !.succeeded = @ + (IF task.status = "success" THEN 1 ELSE 0)]
         IN  aggregate([st1 EXCEPT ![j] = new], log, k + 1)

\* no log, no earlier result file
LogInit ==
    /\ task_log = <<>>
    /\ model_stats = <<>>
    /\ subagent_data = DefaultSubagentData
    /\ ae_pc = "start"

\* the position after the log changed: before the first run, or between the
\* first run and the second, which is the last one followed
AfterChange == IF ae_pc = "start" THEN "start" ELSE "changed"

\* a finished task appends its line to the log; no run is in progress, so
\* there is no model_stats
AppendTask(task) ==
    /\ ae_pc \in {"start", "done", "changed"}
    /\ Len(task_log) < MaxLogLen
    /\ task_log' = Append(task_log, task)
    /\ ae_pc' = AfterChange
    /\ model_stats' = <<>>
    /\ UNCHANGED <<subagent_data, scoreVars, levelVars, maturityVars, usageVars>>

\* the log file is removed: parse_task_log() then returns []
RemoveLog ==
    /\ ae_pc \in {"start", "done", "changed"}
    /\ task_log # <<>>
    /\ task_log' = <<>>
    /\ ae_pc' = AfterChange
    /\ model_stats' = <<>>
    /\ UNCHANGED <<subagent_data, scoreVars, levelVars, maturityVars, usageVars>>

\* analyze_effectiveness() on the current log and the stored result file
AnalyzeTaskLog ==
    /\ ae_pc \in {"start", "changed"}
    /\ model_stats' = aggregate(<<>>, task_log, 1)
    /\ LET models == update_models(subagent_data.models, model_stats', 1)
       IN  subagent_data' = [models |-> models,
                             comparisonMetrics |-> generate_recommendations(models),
                             lastUpdated |-> "now"]
    /\ ae_pc' = IF ae_pc = "start" THEN "done" ELSE "again"
    /\ UNCHANGED <<task_log, scoreVars, levelVars, maturityVars, usageVars>>

---------------------------------------------------------------------------
(* Specifications *)

\* score_dimension applied to bounded inputs
InitScore == ScoreInit /\ LevelIdle /\ MaturityIdle /\ UsageIdle /\ ModelsIdle
SpecScore == InitScore
             /\ [][ScoreDimension \/ ScoreDimensionRaises]_vars

\* get_maturity_level applied to every overall score
InitLevel == LevelInit /\ ScoreIdle /\ MaturityIdle /\ UsageIdle /\ ModelsIdle
SpecLevel == InitLevel
             /\ [][GetMaturityLevel]_vars

\* one run of calculate-process-maturity.py over every outcome of its sources
InitMaturity == MaturityInit /\ ScoreIdle /\ LevelIdle /\ UsageIdle /\ ModelsIdle
SpecMaturity == InitMaturity
                /\ [][ScoreNextDimension \/ GetValueRaises \/ ReturnReport
                      \/ PrintReport]_vars

\* serialized hook calls and analysis runs on command-usage.json
UsageNext ==
    \/ \E command \in Commands, success \in BOOLEAN :
          RecordOutcome(command, success)
    \/ AnalyzeCommandUsage

InitUsage == UsageInit /\ ScoreIdle /\ LevelIdle /\ MaturityIdle /\ ModelsIdle
SpecUsage == InitUsage
             /\ [][UsageNext]_vars

RaceNext ==
    \/ \E p \in Hooks, command \in Commands, success \in BOOLEAN :
          LoadForUpdate(p, command, success)
    \/ \E p \in Hooks : SaveUpdate(p)
    \/ LoadForAnalysis
    \/ SaveAnalysis

\* calls of update_command_usage and analyze_command_usage whose loads and
\* saves interleave unless the caller serializes them
InitRace == RaceInit /\ ScoreIdle /\ LevelIdle /\ MaturityIdle /\ ModelsIdle
SpecRace == InitRace /\ [][RaceNext]_vars

\* runs of analyze-command-usage.py over a stored usage file
InitAnalysis == AnalysisInit /\ ScoreIdle /\ LevelIdle /\ MaturityIdle /\ ModelsIdle
SpecAnalysis == InitAnalysis
                /\ [][AnalyzeCommandUsage]_vars

\* one run of analyze-subagent-effectiveness.py over an aggregated task log
InitModels == ModelsInit /\ ScoreIdle /\ LevelIdle /\ MaturityIdle /\ UsageIdle
LogNext ==
    \/ \E task \in LogEntries : AppendTask(task)
    \/ RemoveLog
    \/ AnalyzeTaskLog

\* runs of analyze-subagent-effectiveness.py between which the log changes
InitLog == LogInit /\ ScoreIdle /\ LevelIdle /\ MaturityIdle /\ UsageIdle
SpecLog == InitLog /\ [][LogNext]_vars

SpecModels == InitModels
              /\ [][AnalyzeEffectiveness]_vars

---------------------------------------------------------------------------
(* Properties *)

\* the indexes of the pairs of a table whose upper bound is >= v
Matching(v, table) == {i \in 1..Len(table) : v <= table[i][1]}

\* C1: for every non-empty table and every raw value (negative and above the
\* largest bound included) score_dimension returns, without raising, the
\* score of the first pair in table order whose upperBound is >= the value,
\* and the last pair's score when no pair matches; the Test Coverage table
\* with 0.82 gives 8.
C1_FirstMatchOrLast ==
    (sd_pc # "call" /\ Len(thresholds) > 0) =>
        /\ sd_pc = "returned"
        /\ LET hits == Matching(value, thresholds)
           IN  IF hits = {}
               THEN score = thresholds[Len(thresholds)][2]
               ELSE \E i \in hits :
                        /\ \A j \in hits : i <= j
                        /\ score = thresholds[i][2]
        /\ (thresholds = TestCoverageThresholds /\ value = 82 => score = 8)

\* the Test Coverage example has been scored
C1_Witness ==
    /\ sd_pc = "returned"
    /\ thresholds = TestCoverageThresholds
    /\ value = 82
    /\ score = 8

RECURSIVE SumWeighted(_)
SumWeighted(dims) ==
    IF dims = <<>> THEN 0
    ELSE dims[1].score * dims[1].weight + SumWeighted(Tail(dims))

RECURSIVE SumWeights(_)
SumWeights(dims) ==
    IF dims = <<>> THEN 0 ELSE dims[1].weight + SumWeights(Tail(dims))

\* C2: the overallScore returned by calculate_maturity is the sum over all six
\* configured dimensions of score_i * weight_i rounded to one decimal, the
\* weights sum to 1.0, and the score lies in [0,10].
C2_WeightedSum ==
    cm_pc = "returned" =>
        /\ Len(report.dimensions) = 6
        /\ SumWeights(report.dimensions) = 100
        /\ report.overallScore \in RoundChoices(SumWeighted(report.dimensions), 10)
        /\ report.overallScore >= 0
        /\ report.overallScore <= 100

\* a report over dimensions that scored differently
C2_Witness ==
    /\ cm_pc = "returned"
    /\ report.dimensions[1].score = 10
    /\ report.dimensions[4].score = 6
    /\ report.dimensions[6].score = 2
    /\ report.overallScore \in 21..99

Rank(l) ==
    CASE l = "Critical" -> 1
      [] l = "Poor" -> 2
      [] l = "Fair" -> 3
      [] l = "Good" -> 4
      [] l = "Excellent" -> 5
      [] OTHER -> 0

\* C10: get_maturity_level maps every overall score to exactly one level by
\* the bands < 2.0 Critical, < 4.0 Poor, < 6.0 Fair, < 8.0 Good, otherwise
\* Excellent; a score on a boundary belongs to the higher band, and the level
\* never gets worse as the score increases.
C10_Bands ==
    lv_pc = "returned" =>
        /\ Rank(level) \in 1..5
        /\ (level = "Critical" <=> overall < 20)
        /\ (level = "Poor" <=> (overall >= 20 /\ overall < 40))
        /\ (level = "Fair" <=> (overall >= 40 /\ overall < 60))
        /\ (level = "Good" <=> (overall >= 60 /\ overall < 80))
        /\ (level = "Excellent" <=> overall >= 80)
        /\ \A lower \in 0..overall :
              Rank(get_maturity_level(lower)) <= Rank(level)

\* a score exactly on the first boundary has been mapped
C10_Witness == lv_pc = "returned" /\ overall = 20 /\ level = "Poor"

\* the stored counters of a command (0 invocations when it has no entry)
Invocations(d, c) ==
    IF c \in Keys(d.commands) THEN d.commands[IndexOf(d.commands, c)].invocations
    ELSE 0
StoredRate(d, c) == d.commands[IndexOf(d.commands, c)].avgSuccessRate

\* the commands created by update_command_usage that have outcomes recorded
Fresh(c) == c \notin seeded /\ calls[c] >= 1

\* C3 as stated: after outcomes s1..sn of a new command the stored rate is
\* (0.5 + successes) / (n + 1) within 2-decimal rounding (half a hundredth).
C3_SeededMean ==
    \A c \in Commands :
        Fresh(c) =>
            2 * Abs(StoredRate(data, c) * (calls[c] + 1)
                    - (50 + 100 * successes[c])) <= calls[c] + 1

\* C3, amended: after outcomes s1..sn (n >= 1) of a command that did not exist
\* before, the stored avgSuccessRate is successes / n: exactly s1 after the
\* first record, and off by at most the rounding accumulated over the n
\* per-step roundings, 0.0025 * (n + 1), afterwards; the 0.5 seed never enters.
C3_PlainMean ==
    \A c \in Commands :
        Fresh(c) =>
            /\ c \in Keys(data.commands)
            /\ 4 * Abs(StoredRate(data, c) * calls[c] - 100 * successes[c])
                  <= calls[c] * (calls[c] + 1)

\* a new command whose single recorded outcome is a success stores 1.0
C3_Witness ==
    \E c \in Commands :
        /\ Fresh(c)
        /\ calls[c] = 1
        /\ successes[c] = 1
        /\ StoredRate(data, c) = 100

\* C4: after any serialized sequence of update_command_usage calls the stored
\* avgSuccessRate is the arithmetic mean of all recorded outcomes (successes
\* / outcomes) rounded to 2 decimals; per-step rounding never makes it drift.
C4_TrueMean ==
    \A c \in Commands :
        calls[c] >= 1 =>
            StoredRate(data, c) \in RoundChoices(100 * successes[c], calls[c])

\* C5: across serialized update_command_usage calls and analysis runs no
\* command entry is removed, a command's invocations never decrease and
\* always equal the number of update_command_usage calls made for it (a
\* record adds exactly 1 to its command and nothing to the others, an
\* analysis run changes no counter).
C5_OnlyAccumulated ==
    /\ [](\A c \in Commands :
            /\ Invocations(data, c) = calls[c]
            /\ (calls[c] > 0 \/ c \in seeded) => c \in Keys(data.commands))
    /\ [][\A c \in Keys(data.commands) :
            /\ c \in Keys(data'.commands)
            /\ Invocations(data', c) >= Invocations(data, c)
            /\ Invocations(data', c) - Invocations(data, c) = calls'[c] - calls[c]
         ]_vars

\* both commands recorded, one of them twice, and an analysis has run since
C5_Witness ==
    /\ data.lastUpdated = "now"
    /\ data.insights.mostUsedCommands # <<>>
    /\ \E c \in Commands : calls[c] = 2 /\ Invocations(data, c) = 2
    /\ \E c \in Commands : calls[c] = 1 /\ Invocations(data, c) = 1

\* the stored models and comparison result of a finished run
Models == subagent_data.models
Metrics == subagent_data.comparisonMetrics
ModelData(m) == Models[ModelIndex(Models, m)]
Attempted(m, t) == t \in TypeNames(ModelData(m).taskTypes)
TypeRate(m, t) ==
    ModelData(m).taskTypes[TypeIndex(ModelData(m).taskTypes, t)].firstPassRate
AttemptedTypes == UNION {TypeNames(Models[j].taskTypes) : j \in 1..Len(Models)}

C7_BestPerTaskType ==
    ae_pc = "done" =>
        /\ \A t \in DOMAIN Metrics.bestFor :
              LET m == Metrics.bestFor[t]
              IN  /\ m \in ModelNames(Models)
                  /\ Attempted(m, t)
                  /\ \A o \in ModelNames(Models) :
                        Attempted(o, t) =>
                            /\ TypeRate(o, t) <= TypeRate(m, t)
                            /\ (ModelIndex(Models, o) < ModelIndex(Models, m)
                                  => TypeRate(o, t) < TypeRate(m, t))
        /\ (/\ Attempted("deepseek", "refactor")
            /\ Attempted("qwen", "refactor")
            /\ TypeRate("deepseek", "refactor") = 80
            /\ TypeRate("qwen", "refactor") = 60)
              => ("refactor" \in DOMAIN Metrics.bestFor
                  /\ Metrics.bestFor["refactor"] = "deepseek")

\* the documented example, and a tie on the other task type won by the first model
C7_Witness ==
    /\ ae_pc = "done"
    /\ Len(model_stats) = 2
    /\ model_stats[1].model = "deepseek"
    /\ DOMAIN Metrics.bestFor = {"refactor", "test"}
    /\ model_stats[1].byTaskType[1] =
          [taskType |-> "refactor", attempted |-> 10, succeeded |-> 8]
    /\ model_stats[2].byTaskType[1] =
          [taskType |-> "refactor", attempted |-> 10, succeeded |-> 6]
    /\ Metrics.bestFor["refactor"] = "deepseek"
    /\ Attempted("deepseek", "test") /\ Attempted("qwen", "test")
    /\ TypeRate("deepseek", "test") = 100 /\ TypeRate("qwen", "test") = 100
    /\ Metrics.bestFor["test"] = "deepseek"

\* C8 as stated: the result has a bestFor_T entry for every task type T that
\* at least one model attempted, also when every such model has rate 0 for T.
C8_EveryAttemptedType ==
    ae_pc = "done" => \A t \in AttemptedTypes : t \in DOMAIN Metrics.bestFor

\* C8, amended: the result has a bestFor_T entry exactly for the task types T
\* for which some model that attempted T has a firstPassRate above 0; a task
\* type on which every model failed every attempt gets no entry.
C8_TypesWithSuccess ==
    ae_pc = "done" =>
        /\ DOMAIN Metrics.bestFor \subseteq AttemptedTypes
        /\ \A t \in AttemptedTypes :
              t \in DOMAIN Metrics.bestFor
                <=> \E m \in ModelNames(Models) : Attempted(m, t) /\ TypeRate(m, t) > 0

\* one task type has a best model, the other was attempted without any success
C8_Witness ==
    /\ ae_pc = "done"
    /\ AttemptedTypes = {"refactor", "test"}
    /\ DOMAIN Metrics.bestFor = {"refactor"}
    /\ \A m \in ModelNames(Models) : Attempted(m, "test") => TypeRate(m, "test") = 0

\* the models that qualify for mostTokenEfficient
Efficient(m) ==
    /\ ModelData(m).avgTokensUsed # NoKey
    /\ ModelData(m).avgTokensUsed > 0
    /\ ModelData(m).tasksAttempted > 0

\* C9: mostTokenEfficient is the model with the smallest avgTokensUsed among
\* the models with avgTokensUsed > 0 and tasksAttempted > 0, the first in
\* iteration order on ties; a model with zero attempts or a zero average is
\* never chosen; the result is "insufficient_data" exactly when no model
\* satisfies both conditions.
C9_MostTokenEfficient ==
    ae_pc = "done" =>
        LET chosen == Metrics.mostTokenEfficient
        IN  /\ (chosen = "insufficient_data")
                  <=> ~(\E m \in ModelNames(Models) : Efficient(m))
            /\ chosen # "insufficient_data" =>
                  /\ chosen \in ModelNames(Models)
                  /\ Efficient(chosen)
                  /\ \A o \in ModelNames(Models) :
                        Efficient(o) =>
                            /\ ModelData(chosen).avgTokensUsed
                                  <= ModelData(o).avgTokensUsed
                            /\ (ModelIndex(Models, o) < ModelIndex(Models, chosen)
                                  => ModelData(chosen).avgTokensUsed
                                        < ModelData(o).avgTokensUsed)

\* the first model's average rounds to zero although it has attempts, so the
\* second model is reported
C9_Witness ==
    /\ ae_pc = "done"
    /\ ModelData("deepseek").tasksAttempted = 6
    /\ ModelData("deepseek").totalTokensUsed = 3
    /\ ModelData("deepseek").avgTokensUsed = 0
    /\ ModelData("qwen").avgTokensUsed = 40
    /\ Metrics.mostTokenEfficient = "qwen"

\* the report's sum with dimension i scored for the raw value v instead
SumWithValue(dims, i, v) ==
    SumWeighted([dims EXCEPT ![i].score = score_dimension(v, dimensions[i].thresholds)])

\* C11: a source without data yields 0.0 with a detail string, and
\* calculate_maturity still scores the dimension, to the first (lowest) entry
\* of its table, and adds score * weight with the dimension's full weight: it
\* is never skipped or re-normalised, so the overall score with the dimension
\* missing is never higher than with any measured value for it, the other
\* dimensions being equal.
C11_MissingDataCounts ==
    cm_pc = "returned" =>
        /\ Len(report.dimensions) = Len(dimensions)
        /\ report.overallScore \in RoundChoices(SumWeighted(report.dimensions), 10)
        /\ \A i \in 1..Len(report.dimensions) :
              LET d == report.dimensions[i]
              IN  d.detail = "no data" =>
                    /\ d.value = 0
                    /\ d.score = dimensions[i].thresholds[1][2]
                    /\ d.weight = dimensions[i].weight
                    /\ \A v \in RatioValues :
                          \A alt \in RoundChoices(SumWithValue(report.dimensions, i, v), 10) :
                              report.overallScore <= alt

\* a report in which the heaviest dimension had no data and the next one scored 10
C11_Witness ==
    /\ cm_pc = "returned"
    /\ report.dimensions[1].detail = "no data"
    /\ report.dimensions[1].score = 2
    /\ report.dimensions[2].detail = "measured"
    /\ report.dimensions[2].score = 10

\* C12: whatever a single metric source does (returns a value, has no data,
\* hits an error while reading its input) calculate_maturity completes and
\* returns a report with exactly one entry per configured dimension, in
\* configuration order, each with a detail string; one source's failure never
\* aborts the scoring of the others.
C12_FailuresIsolated ==
    /\ cm_pc # "raised"
    /\ cm_pc = "returned" =>
          /\ Len(report.dimensions) = Len(dimensions)
          /\ \A i \in 1..Len(dimensions) :
                /\ report.dimensions[i].dimension = dimensions[i].name
                /\ report.dimensions[i].detail \in {"measured", "no data", "error"}

\* bounds strictly ascending
Ascending(table) ==
    \A i, j \in 1..Len(table) : i < j => table[i][1] < table[j][1]

\* a valid table: non-empty, bounds ascending, scores non-decreasing
ValidTable(table) ==
    /\ Len(table) > 0
    /\ Ascending(table)
    /\ \A i, j \in 1..Len(table) : i < j => table[i][2] <= table[j][2]

\* C13: for a valid table (ascending bounds, non-decreasing scores)
\* score_dimension is monotone: a raw value never scores lower than any
\* smaller raw value.
C13_Monotone ==
    (sd_pc = "returned" /\ ValidTable(thresholds)) =>
        \A lower \in GeneratedValues \cup RatioValues :
            lower <= value => score_dimension(lower, thresholds) <= score

\* a value above every bound of a valid table whose scores rise
C13_Witness ==
    /\ sd_pc = "returned"
    /\ ValidTable(thresholds)
    /\ Len(thresholds) >= 2
    /\ value > thresholds[Len(thresholds)][1]
    /\ score = thresholds[Len(thresholds)][2]
    /\ score > thresholds[1][2]

\* the analysis has run on the stored file
Analysed == data.lastUpdated = "now"

Range(seq) == {seq[j] : j \in 1..Len(seq)}
NoRepeats(seq) == \A i, j \in 1..Len(seq) : seq[i] = seq[j] => i = j

\* the stored ids of a family whose invocation count is below the limit
LowUsage(prefix, limit) ==
    {c \in Keys(data.commands) : startswith(c, prefix) /\ Invocations(data, c) < limit}

LocalFlagged == Cardinality(LowUsage("/local-", 5)) >= 2
ProcessFlagged == Cardinality(LowUsage("/process-", 3)) >= 3

\* C14: find_redundant_commands reports a /local-* cluster exactly when at
\* least 2 stored /local-* commands have fewer than 5 invocations and a
\* /process-* cluster exactly when at least 3 stored /process-* commands have
\* fewer than 3; a cluster's members are exactly the low-usage members of its
\* family (so every cluster has at least 2 members) and no other cluster is
\* emitted.
C14_RedundancyClusters ==
    Analysed =>
        LET red == data.insights.redundantCommands
            locals == {j \in 1..Len(red) : \E c \in Range(red[j].commands) :
                                              startswith(c, "/local-")}
            processes == {j \in 1..Len(red) : \E c \in Range(red[j].commands) :
                                                 startswith(c, "/process-")}
        IN  /\ Cardinality(locals) = (IF LocalFlagged THEN 1 ELSE 0)
            /\ Cardinality(processes) = (IF ProcessFlagged THEN 1 ELSE 0)
            /\ locals \cup processes = 1..Len(red)
            /\ \A j \in locals : Range(red[j].commands) = LowUsage("/local-", 5)
            /\ \A j \in processes : Range(red[j].commands) = LowUsage("/process-", 3)
            /\ \A j \in 1..Len(red) :
                  NoRepeats(red[j].commands) /\ Len(red[j].commands) >= 2

\* {/a: 0, /b: 0, /local-x: 3, /local-y: 2} gives the single cluster
\* {/local-x, /local-y}
C14_Witness ==
    /\ Analysed
    /\ Keys(data.commands) = {"/a", "/b", "/local-x", "/local-y"}
    /\ Invocations(data, "/a") = 0 /\ Invocations(data, "/b") = 0
    /\ Invocations(data, "/local-x") = 3 /\ Invocations(data, "/local-y") = 2
    /\ Len(data.insights.redundantCommands) = 1
    /\ Range(data.insights.redundantCommands[1].commands) = {"/local-x", "/local-y"}

PositiveCommands == {c \in Keys(data.commands) : Invocations(data, c) > 0}
UnusedCommands == {c \in Keys(data.commands) : Invocations(data, c) = 0}

\* C15: mostUsed holds at most 5 commands, all with invocations > 0, in
\* descending invocation order, and no command outside the list has more
\* invocations than one inside it (all positive-invocation commands are
\* listed when there are at most 5); leastUsed is exactly the set of stored
\* commands with 0 invocations.
C15_MostAndLeastUsed ==
    Analysed =>
        LET most == data.insights.mostUsedCommands
            least == data.insights.leastUsedCommands
        IN  /\ Len(most) <= 5
            /\ NoRepeats(most)
            /\ Range(most) \subseteq PositiveCommands
            /\ \A i, j \in 1..Len(most) :
                  i < j => Invocations(data, most[i]) >= Invocations(data, most[j])
            /\ \A c \in Keys(data.commands) \ Range(most) : \A m \in Range(most) :
                  Invocations(data, c) <= Invocations(data, m)
            /\ Cardinality(PositiveCommands) <= 5 => Range(most) = PositiveCommands
            /\ Cardinality(PositiveCommands) > 5 => Len(most) = 5
            /\ NoRepeats(least)
            /\ Range(least) = UnusedCommands

\* more than five used commands, the most used one stored last, and an unused one
C15_Witness ==
    /\ Analysed
    /\ Cardinality(PositiveCommands) > 5
    /\ Len(data.insights.mostUsedCommands) = 5
    /\ data.insights.mostUsedCommands[1] = data.commands[Len(data.commands)].cmd
    /\ Invocations(data, data.commands[1].cmd) \in 1..5
    /\ UnusedCommands # {}

RecsOf(category) ==
    {j \in 1..Len(data.recommendations) : data.recommendations[j].category = category}

RouteData == data.commands[IndexOf(data.commands, "/route")]

\* /route is stored with an adoption rate below 0.3
RouteBelowThreshold ==
    "/route" \in Keys(data.commands) /\ RouteData.adoptionRate < 30

\* /route has made recommendations and its adoption rate is below 0.3
RouteFlagged ==
    /\ "/route" \in Keys(data.commands)
    /\ RouteData.recommendationsMade > 0
    /\ RouteData.adoptionRate < 30

Underused ==
    {c \in Keys(data.commands) :
        Invocations(data, c) < 5 /\ StoredRate(data, c) # NoKey /\ StoredRate(data, c) > 80}

\* one recommendation per flagged signal, with the signal's fixed priority,
\* and nothing else; adoptionSignal says when /route is flagged
OnePerSignal(adoptionSignal) ==
    LET recs == data.recommendations
    IN  /\ \A j \in 1..Len(recs) :
              recs[j].category \in {"cleanup", "consolidation", "adoption", "promotion"}
        /\ Cardinality(RecsOf("cleanup")) = (IF UnusedCommands # {} THEN 1 ELSE 0)
        /\ \A j \in RecsOf("cleanup") :
              recs[j].priority = "low" /\ Range(recs[j].commands) = UnusedCommands
        /\ Cardinality(RecsOf("consolidation"))
              = (IF LocalFlagged THEN 1 ELSE 0) + (IF ProcessFlagged THEN 1 ELSE 0)
        /\ \A j \in RecsOf("consolidation") :
              /\ recs[j].priority = "medium"
              /\ Range(recs[j].commands) \in {LowUsage("/local-", 5), LowUsage("/process-", 3)}
        /\ \A i, j \in RecsOf("consolidation") :
              recs[i].commands = recs[j].commands => i = j
        /\ Cardinality(RecsOf("adoption")) = (IF adoptionSignal THEN 1 ELSE 0)
        /\ \A j \in RecsOf("adoption") : recs[j].priority = "high"
        /\ Cardinality(RecsOf("promotion")) = Cardinality(Underused)
        /\ \A j \in RecsOf("promotion") : recs[j].priority = "medium"
        /\ {recs[j].commands : j \in RecsOf("promotion")} = {<<c>> : c \in Underused}

\* C16 as stated: generate_recommendations emits exactly one recommendation
\* per flagged signal with a fixed priority and nothing else: one cleanup/low
\* iff some command has zero invocations, one consolidation/medium per
\* redundancy cluster, one adoption/high iff /route has an adoption rate
\* below 0.3, one promotion/medium per command with fewer than 5 invocations
\* and a success rate above 0.8.
C16_AdoptionBelowThreshold == Analysed => OnePerSignal(RouteBelowThreshold)

\* C16: generate_recommendations emits exactly one recommendation per flagged
\* signal with a fixed priority and nothing else: one cleanup/low iff some
\* command has zero invocations, one consolidation/medium per redundancy
\* cluster, one adoption/high iff /route has recommendationsMade > 0 and an
\* adoption rate below 0.3, one promotion/medium per command with fewer than
\* 5 invocations and a success rate above 0.8.
C16_OnePerSignal == Analysed => OnePerSignal(RouteFlagged)

\* every signal is flagged: an unused command, both clusters, /route at 0.29
\* after 10 recommendations, and an underused successful command
C16_Witness ==
    /\ Analysed
    /\ UnusedCommands # {}
    /\ LocalFlagged /\ ProcessFlagged
    /\ RouteFlagged
    /\ Underused # {}
    /\ Cardinality(RecsOf("adoption")) = 1
    /\ Len(data.recommendations) = 4 + Cardinality(Underused)

PriorityRank(priority) ==
    IF priority = "high" THEN 3 ELSE IF priority = "medium" THEN 2 ELSE 1

CategoryOrder(category) ==
    IF category = "cleanup" THEN 1
    ELSE IF category = "consolidation" THEN 2
    ELSE IF category = "adoption" THEN 3
    ELSE 4

\* C17 as stated: the recommendation list is ordered priority-descending
\* (every high before every medium before every low), recommendations of
\* equal priority keeping generation order.
C17_PriorityDescending ==
    Analysed =>
        \A i, j \in 1..Len(data.recommendations) :
            i < j => PriorityRank(data.recommendations[i].priority)
                        >= PriorityRank(data.recommendations[j].priority)

\* C17: the recommendation list is in generation order, not sorted by
\* priority: the cleanup recommendation (low) first, then the consolidation
\* ones (medium), the /local-* cluster before the /process-* one, then the
\* adoption one (high), then the promotion ones (medium) in the order the
\* file stores their commands.
C17_GenerationOrder ==
    Analysed =>
        LET recs == data.recommendations
        IN  \A i, j \in 1..Len(recs) :
                i < j =>
                    /\ CategoryOrder(recs[i].category) <= CategoryOrder(recs[j].category)
                    /\ (recs[i].category = "consolidation" /\ recs[j].category = "consolidation")
                          => /\ startswith(recs[i].commands[1], "/local-")
                             /\ startswith(recs[j].commands[1], "/process-")
                    /\ (recs[i].category = "promotion" /\ recs[j].category = "promotion")
                          => IndexOf(data.commands, recs[i].commands[1])
                                < IndexOf(data.commands, recs[j].commands[1])

\* a list with all four kinds: low, medium, medium, high, medium, medium
C17_Witness ==
    /\ Analysed
    /\ Len(data.recommendations) = 6
    /\ [j \in 1..6 |-> data.recommendations[j].priority]
          = <<"low", "medium", "medium", "high", "medium", "medium">>
    /\ data.recommendations[5].category = "promotion"

\* the insights and recommendations a first analysis of a file holding these
\* commands stores
FreshAnalysis(commands) ==
    LET d == generate_usage_recommendations(
                 analyze_usage_patterns([DefaultData EXCEPT !.commands = commands]))
    IN  <<d.insights, d.recommendations>>

\* C18: after each run of analyze_command_usage the stored insights and
\* recommendations depend only on the current command counters: the
\* recommendations of earlier runs are discarded, not accumulated, and a
\* second run without intervening update_command_usage calls stores the same
\* insights and recommendations.
C18_RecomputedFresh ==
    [][calls' = calls =>
          /\ data'.commands = data.commands
          /\ <<data'.insights, data'.recommendations>> = FreshAnalysis(data.commands)]_vars

\* an analysed file to which outcomes were recorded since: the stored
\* recommendations are those of the earlier run and no longer fit the counters
C18_Witness ==
    /\ Analysed
    /\ data.recommendations # <<>>
    /\ data.recommendations # FreshAnalysis(data.commands)[2]
    /\ SumOver(calls, Commands) >= 5

\* C19: the report's trend is "stable" whenever no prior report is
\* supplied; with a prior report it is "improving" if the overall score
\* increased, "declining" if it decreased, "stable" if it is unchanged.
C19_TrendFromPriorReport ==
    cm_pc = "returned" =>
        report.trend =
            IF previous_score = NoPrevious THEN "stable"
            ELSE IF report.overallScore > previous_score THEN "improving"
            ELSE IF report.overallScore < previous_score THEN "declining"
            ELSE "stable"

\* a table that is empty or whose bounds are not strictly ascending
Malformed(table) == Len(table) = 0 \/ ~Ascending(table)

\* the first entry in table order whose bound is not below v, else the last
FirstInTableOrder(v, table) ==
    IF Matching(v, table) = {} THEN Len(table)
    ELSE CHOOSE i \in Matching(v, table) : \A j \in Matching(v, table) : i <= j

\* C20 as stated: an empty or unsorted threshold table is detected at setup
\* and reported as a configuration error; it is never silently tolerated, so
\* no score is ever returned from a malformed table.
C20_MalformedRejected ==
    Malformed(thresholds) => sd_pc # "returned"

\* C20: score_dimension neither validates nor sorts its table, and nothing
\* checks a table before it is scored: an unsorted table is accepted and
\* scored by first match in table order (last entry if none matches), an
\* empty table fails only when it is scored, with IndexError, and the tables
\* and weights calculate_maturity configures are well formed (ascending
\* bounds, rising scores, weights summing to 1.0).
C20_NoValidation ==
    /\ sd_pc = "IndexError" <=> (sd_pc # "call" /\ Len(thresholds) = 0)
    /\ (sd_pc = "returned" /\ Malformed(thresholds)) =>
          score = thresholds[FirstInTableOrder(value, thresholds)][2]
    /\ \A i \in 1..Len(dimensions) : ValidTable(dimensions[i].thresholds)
    /\ SumWeights(dimensions) = 100

\* a table whose bounds descend: the value is within the smaller, later
\* bound but gets the score of the larger, earlier one
C20_Witness ==
    /\ sd_pc = "returned"
    /\ Len(thresholds) = 2
    /\ thresholds[1][1] > thresholds[2][1]
    /\ value <= thresholds[2][1]
    /\ score = thresholds[1][2]
    /\ score # thresholds[2][2]

\* C23: with the configured dimensions every table's lowest score is 2 and
\* the weights sum to 1.0, so every report calculate_maturity returns has
\* overallScore >= 2.0, also when all six sources report missing data, and
\* get_maturity_level never returns "Critical" for a computed report.
C23_NeverCritical ==
    /\ \A i \in 1..Len(dimensions) :
          \A k \in 1..Len(dimensions[i].thresholds) :
              dimensions[i].thresholds[k][2] >= 2
    /\ SumWeights(dimensions) = 100
    /\ cm_pc = "returned" =>
          /\ report.overallScore >= 20
          /\ lv_pc = "returned" => (overall = report.overallScore /\ level # "Critical")

\* the report of a run in which no source had data: 2.0, printed as "Poor"
C23_Witness ==
    /\ cm_pc = "returned"
    /\ lv_pc = "returned"
    /\ \A i \in 1..Len(report.dimensions) : report.dimensions[i].detail = "no data"
    /\ report.overallScore = 20
    /\ level = "Poor"

\* the entries of model m in the log, those that succeeded, those of type t
EntriesOf(m) == {k \in 1..Len(task_log) : task_log[k].model = m}
SuccessesOf(m) == {k \in EntriesOf(m) : task_log[k].status = "success"}
EntriesOfType(m, t) == {k \in EntriesOf(m) : task_log[k].taskType = t}

RECURSIVE SumField(_, _)
SumField(seq, field) ==
    IF seq = <<>> THEN 0 ELSE seq[1][field] + SumField(Tail(seq), field)

\* rate (hundredths) is succeeded / attempted rounded to 2 decimals, 0 for 0
IsRoundedRate(rate, succeeded, attempted) ==
    IF attempted = 0 THEN rate = 0
    ELSE 2 * Abs(rate * attempted - 100 * succeeded) <= attempted

\* the stored totals and the overall rate of the models in the analysed log
TotalsMatchLog ==
    \A m \in {task_log[k].model : k \in 1..Len(task_log)} :
        /\ m \in ModelNames(subagent_data.models)
        /\ LET md == ModelData(m)
           IN  /\ md.tasksAttempted = Cardinality(EntriesOf(m))
               /\ md.tasksSucceeded = Cardinality(SuccessesOf(m))
               /\ md.tasksSucceeded <= md.tasksAttempted
               /\ IsRoundedRate(md.firstPassRate, md.tasksSucceeded, md.tasksAttempted)
               /\ md.firstPassRate \in 0..100
               /\ \A j \in 1..Len(md.taskTypes) :
                     /\ IsRoundedRate(md.taskTypes[j].firstPassRate,
                                      md.taskTypes[j].succeeded, md.taskTypes[j].attempted)
                     /\ md.taskTypes[j].firstPassRate \in 0..100

\* the stored per-task-type counts sum to the stored totals
TypesSumToTotals ==
    \A m \in {task_log[k].model : k \in 1..Len(task_log)} :
        LET md == ModelData(m)
        IN  /\ SumField(md.taskTypes, "attempted") = md.tasksAttempted
            /\ SumField(md.taskTypes, "succeeded") = md.tasksSucceeded

\* C22: after analyze_effectiveness aggregates a task log, for every model in
\* the log tasksAttempted is the number of its entries, tasksSucceeded the
\* number of those with status "success", tasksSucceeded <= tasksAttempted,
\* the per-task-type attempted and succeeded counts sum to the model's
\* totals, and every firstPassRate is succeeded/attempted rounded to 2
\* decimals (0 when attempted is 0) and lies in [0,1].
C22_CountsMatchLog ==
    ae_pc \in {"done", "again"} => (TotalsMatchLog /\ TypesSumToTotals)

\* C21: update_command_usage is a load-modify-save without locking: when
\* calls are serialized every command's invocations equals the number of
\* record calls completed for it, so a lost outcome is unreachable; when
\* loads and saves interleave the count is never larger, and can be smaller.
C21_LostOnlyWhenInterleaved ==
    /\ \A c \in Commands : Invocations(data, c) <= calls[c]
    /\ serialized => \A c \in Commands : Invocations(data, c) = calls[c]

\* two record calls for /local-x loaded the same file and both saved: two
\* calls were made, the file counts one
C21_Witness ==
    /\ ~serialized
    /\ \A p \in Hooks : running[p].pc = "done" /\ running[p].command = "/local-x"
    /\ running["analysis"].pc = "start"
    /\ calls["/local-x"] = 2
    /\ Invocations(data, "/local-x") = 1

=============================================================================
